---- MODULE Spec2Model ----
(***************************************************************************)
(* The cache-or-fetch data-access layer of nba_analysis: get_dataframe,    *)
(* save_dataframe, get_teams and get_season, as written in src/src/nba.py  *)
(* and in its copy src/data.py.                                            *)
(*                                                                         *)
(* Strings are sequences of one-character strings, so that the f-string    *)
(* and the path join that build a file name are real concatenations.       *)
(* The store is the content of the data directory: a set of directory      *)
(* entries [name, data].  A parquet file is its schema, its row group and  *)
(* the footer that the writer puts last; a file without footer is what a   *)
(* reader finds while a write is in progress.  A table is its column names *)
(* and its rows, in order; the dtype pandas gives a column is not part of  *)
(* it.  The data directory itself exists: the program never creates it.    *)
(***************************************************************************)
EXTENDS Integers, Sequences, FiniteSets, TLC

\* ------------------------------------------------------------- bounds
\* Longest game log the remote adapter returns.
MaxRows == 2
\* Calls made in one single-threaded run.
MaxCalls == 3
\* Calls each of the concurrent processes makes.
MaxProcCalls == 1
\* get_last_matches calls in one run.
MaxMatchCalls == 2
\* Calls of the derived views in one run.
MaxViewCalls == 2
\* get_season calls with extra fetch parameters in one run.
MaxKwargsCalls == 2
\* get_season calls with free team_id and season strings in one run.
MaxKeyCalls == 2

\* --------------------------------------------------------- constants
DATA_DIR == <<"n", "b", "a", "_", "d", "a", "t", "a">>

CURRENT_SEASON == <<"2", "0", "1", "9", "-", "2", "0">>

TEAMS_FILENAME ==
    <<"n", "b", "a", "_", "t", "e", "a", "m", "s",
      ".", "p", "a", "r", "q", "u", "e", "t">>

PLAYERS_FILENAME ==
    <<"n", "b", "a", "_", "p", "l", "a", "y", "e", "r", "s",
      ".", "p", "a", "r", "q", "u", "e", "t">>

PARQUET_EXT == <<".", "p", "a", "r", "q", "u", "e", "t">>

\* ------------------------------------------------------------ inputs
TeamIds == { <<"3", "8">>, <<"4", "7">> }

Seasons == { CURRENT_SEASON }

\* One row of a table: its key column and one value column.
GameRows == { [k |-> "g1", v |-> "W"], [k |-> "g2", v |-> "L"] }

GameLogCols == <<"Game_ID", "WL">>

TeamCols == <<"abbreviation", "full_name">>

\* The sequences of at most n elements of S, none repeated.
RECURSIVE SeqsUpTo(_, _)
SeqsUpTo(S, n) ==
    IF n = 0 THEN { <<>> }
    ELSE LET shorter == SeqsUpTo(S, n - 1)
             longest == { t \in shorter : Len(t) = n - 1 }
         IN  shorter \cup
             UNION { { Append(s, x) : x \in { y \in S : \A i \in 1..Len(s) : s[i] # y } } :
                     s \in longest }

\* What TeamGameLog(...).get_data_frames()[0] can be: a game log of at most
\* MaxRows games, each game once, in either order; the empty log included.
GameLogs == { [cols |-> GameLogCols, rows |-> r] : r \in SeqsUpTo(GameRows, MaxRows) }

\* What teams.get_teams() can be: a list of team dicts.  The last directory
\* repeats an abbreviation.
TeamDirectories ==
    { << [k |-> "BOS", v |-> "Celtics"] >>,
      << [k |-> "BOS", v |-> "Celtics"], [k |-> "LAL", v |-> "Lakers"] >>,
      << [k |-> "BOS", v |-> "Celtics"], [k |-> "LAL", v |-> "Lakers"],
         [k |-> "BOS", v |-> "Boston"] >> }

PlayerCols == <<"full_name", "is_active">>

\* What players.get_players() can be: a list of player dicts, here the name
\* and the is_active flag (written as Python prints it).
PlayerDirectories ==
    { << [k |-> "James", v |-> "True"], [k |-> "Bryant", v |-> "False"] >>,
      << [k |-> "Bryant", v |-> "False"], [k |-> "James", v |-> "True"],
         [k |-> "Doncic", v |-> "True"] >> }

\* ------------------------------------------------------------ values
NoTable == [cols |-> <<>>, rows |-> <<>>]

\* A Python value or a raised exception.
Ok(t) == [kind |-> "ok", val |-> t, err |-> ""]

None == [kind |-> "none", val |-> NoTable, err |-> ""]

Raise(e) == [kind |-> "raise", val |-> NoTable, err |-> e]

\* The remote adapter's answer to one request: a table, or a failure.
SeasonFetchOutcomes == { Ok(t) : t \in GameLogs } \cup { Raise("FetchError") }

TeamsFetchOutcomes == { Ok(d) : d \in TeamDirectories } \cup { Raise("FetchError") }

PlayersFetchOutcomes == { Ok(d) : d \in PlayerDirectories } \cup { Raise("FetchError") }

\* ------------------------------------------------------ parquet files
\* A file is a sequence of blocks.  A parquet file is its row blocks followed
\* by the footer, which holds the schema and the number of rows and is written
\* last.  A zero block is a hole left by a write beyond the end of the file.
NoRow == [k |-> "", v |-> ""]

RowBlock(r) == [t |-> "row", row |-> r, schema |-> <<>>, nrows |-> 0]

FooterBlock(cols, n) == [t |-> "footer", row |-> NoRow, schema |-> cols, nrows |-> n]

ZeroBlock == [t |-> "zero", row |-> NoRow, schema |-> <<>>, nrows |-> 0]

\* DataFrame.to_parquet(path, ...): the blocks it writes, in order.
ToParquet(dataframe) ==
    [i \in 1..Len(dataframe.rows) |-> RowBlock(dataframe.rows[i])]
        \o << FooterBlock(dataframe.cols, Len(dataframe.rows)) >>

\* pd.read_parquet(path) of an existing file: the footer is read from the end
\* of the file and the rows from where it says they are.
ReadParquet(file) ==
    LET n == Len(file)
    IN  IF n = 0 THEN Raise("ArrowInvalid")
        ELSE IF file[n].t # "footer" THEN Raise("ArrowInvalid")
        ELSE IF file[n].nrows > n - 1 THEN Raise("ArrowInvalid")
        ELSE IF \E i \in 1..file[n].nrows : file[i].t # "row" THEN Raise("ArrowInvalid")
        ELSE Ok([cols |-> file[n].schema,
                 rows |-> [i \in 1..file[n].nrows |-> file[i].row]])

\* A write of one block at offset `off` (blocks before it) of a file.
WriteAt(file, off, block) ==
    IF off < Len(file)
    THEN [file EXCEPT ![off + 1] = block]
    ELSE file \o [i \in 1..(off - Len(file)) |-> ZeroBlock] \o << block >>

\* ------------------------------------------------------------- paths
\* Path(DATA_DIR / filename); an absolute right operand replaces the left.
PathOf(filename) ==
    IF Len(filename) > 0 /\ filename[1] = "/"
    THEN filename
    ELSE DATA_DIR \o <<"/">> \o filename

Entries(st, path) == { e \in st : e.name = path }

PathExists(st, path) == Entries(st, path) # {}

\* f"{team_id}_{season}.parquet"
SeasonFilename(team_id, season) == team_id \o <<"_">> \o season \o PARQUET_EXT

Filenames == { SeasonFilename(t, s) : t \in TeamIds, s \in Seasons } \cup { TEAMS_FILENAME }

\* ------------------------------------------- src/src/nba.py functions
\* A get_dataframe that looks in the working directory, not under DATA_DIR.
GetDataframeNoDir(st, filename) ==
    IF PathExists(st, filename)
    THEN ReadParquet((CHOOSE e \in Entries(st, filename) : TRUE).data)
    ELSE None

GetDataframe(st, filename) ==
    LET path == PathOf(filename)
    IN  IF PathExists(st, path)
        THEN ReadParquet((CHOOSE e \in Entries(st, path) : TRUE).data)
        ELSE None

\* A save that writes into the working directory, not under DATA_DIR.
SaveDataframeNoDir(st, dataframe, filename) ==
    { e \in st : e.name # filename }
        \cup { [name |-> filename, data |-> ToParquet(dataframe)] }

\* A save that opens the file for appending: the old rows stay.
SaveDataframeAppend(st, dataframe, filename) ==
    LET path   == PathOf(filename)
        old    == IF PathExists(st, path)
                  THEN ReadParquet((CHOOSE e \in Entries(st, path) : TRUE).data)
                  ELSE None
        merged == IF old.kind = "ok"
                  THEN [dataframe EXCEPT !.rows = old.val.rows \o dataframe.rows]
                  ELSE dataframe
    IN  { e \in st : e.name # path }
            \cup { [name |-> path, data |-> ToParquet(merged)] }

SaveDataframe(st, dataframe, filename) ==
    LET path == PathOf(filename)
    IN  { e \in st : e.name # path }
            \cup { [name |-> path, data |-> ToParquet(dataframe)] }

\* {i["abbreviation"]: i for i in nba_teams}: a key keeps the place of its
\* first occurrence and the value of its last.
RECURSIVE DictByKey(_)
DictByKey(list) ==
    IF list = <<>> THEN <<>>
    ELSE LET n     == Len(list)
             x     == list[n]
             front == DictByKey(SubSeq(list, 1, n - 1))
         IN  IF \E i \in 1..Len(front) : front[i].k = x.k
             THEN [i \in 1..Len(front) |-> IF front[i].k = x.k THEN x ELSE front[i]]
             ELSE Append(front, x)

\* pd.DataFrame(nba_teams).T
TeamsFrame(list) == [cols |-> TeamCols, rows |-> DictByKey(list)]

\* What one call did: its result (a value or the exception that left it), the
\* store it left, how many times it invoked the remote adapter, and the
\* save_dataframe calls it made, in order.
Result(ret, st, fetches, saves) ==
    [ret |-> ret, store |-> st, fetches |-> fetches, saves |-> saves]

Saved(dataframe, filename) == [filename |-> filename, dataframe |-> dataframe]

\* A get_teams that opens the file before it fetches: a failed fetch leaves
\* an empty artifact behind.
GetTeamsOpenFirst(st, fo) ==
    LET filename  == TEAMS_FILENAME
        nba_teams == GetDataframe(st, filename)
        opened    == { e \in st : e.name # PathOf(filename) }
                        \cup { [name |-> PathOf(filename), data |-> <<>>] }
    IN  IF nba_teams.kind = "raise" THEN Result(nba_teams, st, 0, <<>>)
        ELSE IF nba_teams.kind = "none"
        THEN IF fo.kind = "raise" THEN Result(fo, opened, 1, <<>>)
             ELSE LET frame == TeamsFrame(fo.val)
                  IN  Result(Ok(frame), SaveDataframe(st, frame, TEAMS_FILENAME), 1,
                             << Saved(frame, TEAMS_FILENAME) >>)
        ELSE Result(nba_teams, st, 0, <<>>)

GetTeams(st, fo) ==
    LET filename  == TEAMS_FILENAME
        nba_teams == GetDataframe(st, filename)
    IN  IF nba_teams.kind = "raise" THEN Result(nba_teams, st, 0, <<>>)
        ELSE IF nba_teams.kind = "none"
        THEN IF fo.kind = "raise" THEN Result(fo, st, 1, <<>>)
             ELSE LET frame == TeamsFrame(fo.val)
                  IN  Result(Ok(frame), SaveDataframe(st, frame, TEAMS_FILENAME), 1,
                             << Saved(frame, TEAMS_FILENAME) >>)
        ELSE Result(nba_teams, st, 0, <<>>)

\* pd.DataFrame(nba_players).T, the dict keyed by full_name.
PlayersFrame(list) == [cols |-> PlayerCols, rows |-> DictByKey(list)]

IsActiveRow(r) == r.v = "True"

\* nba_players[nba_players["is_active"]]
ActiveOnly(frame) == [frame EXCEPT !.rows = SelectSeq(frame.rows, IsActiveRow)]

\* A get_players that filters before it saves.
GetPlayersSaveFiltered(st, is_active, fo) ==
    LET filename    == PLAYERS_FILENAME
        nba_players == GetDataframe(st, filename)
    IN  IF nba_players.kind = "raise" THEN Result(nba_players, st, 0, <<>>)
        ELSE IF nba_players.kind = "none"
        THEN IF fo.kind = "raise" THEN Result(fo, st, 1, <<>>)
             ELSE LET frame == IF is_active THEN ActiveOnly(PlayersFrame(fo.val))
                                            ELSE PlayersFrame(fo.val)
                  IN  Result(Ok(frame), SaveDataframe(st, frame, filename), 1,
                             << Saved(frame, filename) >>)
        ELSE Result(IF is_active THEN Ok(ActiveOnly(nba_players.val)) ELSE nba_players,
                    st, 0, <<>>)

GetPlayers(st, is_active, fo) ==
    LET filename    == PLAYERS_FILENAME
        nba_players == GetDataframe(st, filename)
        filtered(v) == IF is_active THEN Ok(ActiveOnly(v.val)) ELSE v
    IN  IF nba_players.kind = "raise" THEN Result(nba_players, st, 0, <<>>)
        ELSE IF nba_players.kind = "none"
        THEN IF fo.kind = "raise" THEN Result(fo, st, 1, <<>>)
             ELSE LET frame == PlayersFrame(fo.val)
                  IN  Result(filtered(Ok(frame)), SaveDataframe(st, frame, filename), 1,
                             << Saved(frame, filename) >>)
        ELSE Result(filtered(nba_players), st, 0, <<>>)

\* A get_season that never looks at the cache.
GetSeasonAlwaysFetch(st, team_id, season, invalidate, fo) ==
    LET filename == SeasonFilename(team_id, season)
    IN  IF fo.kind = "raise" THEN Result(fo, st, 1, <<>>)
        ELSE Result(fo, SaveDataframe(st, fo.val, filename), 1,
                    << Saved(fo.val, filename) >>)

\* A get_season that saves under the file name of the teams dataset.
GetSeasonWrongFile(st, team_id, season, invalidate, fo) ==
    LET filename    == SeasonFilename(team_id, season)
        team_season == IF ~invalidate THEN GetDataframe(st, filename) ELSE None
        refetch     == invalidate \/ team_season.kind = "none"
    IN  IF team_season.kind = "raise" THEN Result(team_season, st, 0, <<>>)
        ELSE IF refetch
        THEN IF fo.kind = "raise" THEN Result(fo, st, 1, <<>>)
             ELSE Result(fo, SaveDataframe(st, fo.val, TEAMS_FILENAME), 1,
                         << Saved(fo.val, TEAMS_FILENAME) >>)
        ELSE Result(team_season, st, 0, <<>>)

\* A get_season that, on a refresh, saves the new table and returns the one
\* it had loaded.
GetSeasonReturnStale(st, team_id, season, invalidate, fo) ==
    LET filename    == SeasonFilename(team_id, season)
        team_season == GetDataframe(st, filename)
        refetch     == invalidate \/ team_season.kind = "none"
    IN  IF team_season.kind = "raise" THEN Result(team_season, st, 0, <<>>)
        ELSE IF refetch
        THEN IF fo.kind = "raise" THEN Result(fo, st, 1, <<>>)
             ELSE Result(IF team_season.kind = "ok" THEN team_season ELSE fo,
                         SaveDataframe(st, fo.val, filename), 1,
                         << Saved(fo.val, filename) >>)
        ELSE Result(team_season, st, 0, <<>>)

\* A get_season that fetches and forgets to save.
GetSeasonNoSave(st, team_id, season, invalidate, fo) ==
    LET filename    == SeasonFilename(team_id, season)
        team_season == IF ~invalidate THEN GetDataframe(st, filename) ELSE None
        refetch     == invalidate \/ team_season.kind = "none"
    IN  IF team_season.kind = "raise" THEN Result(team_season, st, 0, <<>>)
        ELSE IF refetch THEN Result(fo, st, 1, <<>>)
        ELSE Result(team_season, st, 0, <<>>)

GetSeason(st, team_id, season, invalidate, fo) ==
    LET filename    == SeasonFilename(team_id, season)
        team_season == IF ~invalidate THEN GetDataframe(st, filename) ELSE None
        refetch     == invalidate \/ team_season.kind = "none"
    IN  IF team_season.kind = "raise" THEN Result(team_season, st, 0, <<>>)
        ELSE IF refetch
        THEN IF fo.kind = "raise" THEN Result(fo, st, 1, <<>>)
             ELSE Result(fo, SaveDataframe(st, fo.val, filename), 1,
                         << Saved(fo.val, filename) >>)
        ELSE Result(team_season, st, 0, <<>>)

\* ------------------------------------------------ src/data.py functions
\* A get_dataframe without the existence check: read_parquet of a missing
\* file raises.
DataGetDataframeNoCheck(st, filename) ==
    LET path == PathOf(filename)
    IN  IF PathExists(st, path)
        THEN ReadParquet((CHOOSE e \in Entries(st, path) : TRUE).data)
        ELSE Raise("FileNotFoundError")

DataGetDataframe(st, filename) ==
    LET path == PathOf(filename)
    IN  IF PathExists(st, path)
        THEN ReadParquet((CHOOSE e \in Entries(st, path) : TRUE).data)
        ELSE None

DataSaveDataframe(st, dataframe, filename) ==
    LET path == PathOf(filename)
    IN  { e \in st : e.name # path }
            \cup { [name |-> path, data |-> ToParquet(dataframe)] }

\* `not x` for the value get_dataframe returned: None is falsy, and the truth
\* value of a DataFrame, empty or not, is a ValueError.
NotFrame(x) == IF x.kind = "none" THEN Ok(TRUE) ELSE Raise("ValueError")

DataGetTeams(st, fo) ==
    LET filename  == TEAMS_FILENAME
        nba_teams == DataGetDataframe(st, filename)
    IN  IF nba_teams.kind = "raise" THEN Result(nba_teams, st, 0, <<>>)
        ELSE IF NotFrame(nba_teams).kind = "raise"
        THEN Result(NotFrame(nba_teams), st, 0, <<>>)
        ELSE IF fo.kind = "raise" THEN Result(fo, st, 1, <<>>)
        ELSE LET frame == TeamsFrame(fo.val)
             IN  Result(Ok(frame), DataSaveDataframe(st, frame, TEAMS_FILENAME), 1,
                        << Saved(frame, TEAMS_FILENAME) >>)

DataGetPlayers(st, fo) ==
    LET filename    == PLAYERS_FILENAME
        nba_players == DataGetDataframe(st, filename)
    IN  IF nba_players.kind = "raise" THEN Result(nba_players, st, 0, <<>>)
        ELSE IF NotFrame(nba_players).kind = "raise"
        THEN Result(NotFrame(nba_players), st, 0, <<>>)
        ELSE IF fo.kind = "raise" THEN Result(fo, st, 1, <<>>)
        ELSE LET frame == PlayersFrame(fo.val)
             IN  Result(Ok(frame), DataSaveDataframe(st, frame, filename), 1,
                        << Saved(frame, filename) >>)

DataGetSeason(st, team_id, season, invalidate, fo) ==
    LET filename    == SeasonFilename(team_id, season)
        team_season == IF ~invalidate THEN DataGetDataframe(st, filename) ELSE None
    IN  IF team_season.kind = "raise" THEN Result(team_season, st, 0, <<>>)
        ELSE IF ~invalidate /\ NotFrame(team_season).kind = "raise"
        THEN Result(NotFrame(team_season), st, 0, <<>>)
        ELSE IF fo.kind = "raise" THEN Result(fo, st, 1, <<>>)
        ELSE Result(fo, DataSaveDataframe(st, fo.val, filename), 1,
                    << Saved(fo.val, filename) >>)

\* ------------------------------------------------------ get_last_matches
Min(a, b) == IF a < b THEN a ELSE b

Max(a, b) == IF a > b THEN a ELSE b

\* frame.iloc[:stop]
IlocHead(frame, stop) ==
    LET n == Len(frame.rows)
        e == IF stop >= 0 THEN Min(stop, n) ELSE Max(n + stop, 0)
    IN  [frame EXCEPT !.rows = SubSeq(frame.rows, 1, e)]

\* frame.iloc[start:]
IlocTail(frame, start) ==
    LET n == Len(frame.rows)
        b == IF start >= 0 THEN Min(start, n) ELSE Max(n + start, 0)
    IN  [frame EXCEPT !.rows = SubSeq(frame.rows, b + 1, n)]

\* A get_last_matches that has the slice saved instead of the season.
NbaGetLastMatchesSaveSlice(st, team_id, last_n_games, fo) ==
    GetSeason(st, team_id, CURRENT_SEASON, TRUE,
              IF fo.kind = "ok" THEN Ok(IlocHead(fo.val, last_n_games)) ELSE fo)

\* src/src/nba.py: self.get_season(invalidate=True).iloc[:last_n_games]
NbaGetLastMatches(st, team_id, last_n_games, fo) ==
    LET r == GetSeason(st, team_id, CURRENT_SEASON, TRUE, fo)
    IN  IF r.ret.kind = "ok"
        THEN [r EXCEPT !.ret = Ok(IlocHead(r.ret.val, last_n_games))]
        ELSE r

\* src/data.py: self.get_season(invalidate=True).iloc[-last_n_games:]
DataGetLastMatches(st, team_id, last_n_games, fo) ==
    LET r == DataGetSeason(st, team_id, CURRENT_SEASON, TRUE, fo)
    IN  IF r.ret.kind = "ok"
        THEN [r EXCEPT !.ret = Ok(IlocTail(r.ret.val, -last_n_games))]
        ELSE r

\* src/prepare_data.py: data.get_season(self.team_id, season, invalidate)
PrepGetSeason(st, team_id, season, invalidate, fo) ==
    DataGetSeason(st, team_id, season, invalidate, fo)

\* src/prepare_data.py: self.get_season("2019-20", True).iloc[-last_n_games:]
PrepGetLastMatches(st, team_id, last_n_games, fo) ==
    LET r == PrepGetSeason(st, team_id, <<"2", "0", "1", "9", "-", "2", "0">>, TRUE, fo)
    IN  IF r.ret.kind = "ok"
        THEN [r EXCEPT !.ret = Ok(IlocTail(r.ret.val, -last_n_games))]
        ELSE r

\* ------------------------------------- src/nba_analysis/nba.py functions
\* The functions that have a cache of their results.
MemoFns == { "get_last_matches", "_get_shots", "current_team" }

\* functools.lru_cache: the position in the function's cache of the entry of
\* a call, 0 if it has none.
LruIndex(cache, self, args) ==
    LET hits == { i \in 1..Len(cache) :
                    /\ cache[i].self = self
                    /\ cache[i].args = args }
    IN  IF hits = {} THEN 0 ELSE CHOOSE i \in hits : TRUE

\* A hit makes the entry the most recently used one.
LruTouch(cache, i) ==
    SubSeq(cache, 1, i - 1) \o SubSeq(cache, i + 1, Len(cache)) \o << cache[i] >>

\* A miss adds the result and drops the least recently used entry when the
\* cache is over its size.
LruPut(cache, maxsize, self, args, val) ==
    LET c == Append(cache, [self |-> self, args |-> args, val |-> val])
    IN  IF Len(c) > maxsize THEN Tail(c) ELSE c

LAST_MATCHES_MAXSIZE == 128

\* get_season of this copy has no store: it always asks the adapter.
AnalysisGetSeason(st, team_id, season, fo) == Result(fo, st, 1, <<>>)

\* What a memoized call returns, with the cache it leaves.
Memoized(r, mem) == [r |-> r, memo |-> mem]

AnalysisGetLastMatches(st, mem, team_id, last_n_games, fo) ==
    LET cache == mem["get_last_matches"]
        i == LruIndex(cache, team_id, << last_n_games >>)
        r == AnalysisGetSeason(st, team_id, CURRENT_SEASON, fo)
        season == IF last_n_games # 0
                  THEN IlocHead(r.ret.val, last_n_games)
                  ELSE r.ret.val
    IN  IF i > 0
        THEN Memoized(Result(Ok(cache[i].val), st, 0, <<>>),
                      [mem EXCEPT !["get_last_matches"] = LruTouch(cache, i)])
        ELSE IF r.ret.kind = "raise" THEN Memoized(r, mem)
        ELSE Memoized([r EXCEPT !.ret = Ok(season)],
                      [mem EXCEPT !["get_last_matches"] =
                           LruPut(cache, LAST_MATCHES_MAXSIZE, team_id,
                                  << last_n_games >>, season)])

\* --------------------------------------------------------- derived views
\* What get_data_frames() of a dashboard endpoint can be: a list of frames
\* whose rows are tuples, the first two columns naming the entity.
ViewCols == <<"TEAM_ID", "TEAM_NAME", "SHOT_TYPE", "FGM">>

ViewFrame(rows) == [cols |-> ViewCols, rows |-> rows]

ViewLists ==
    { << ViewFrame(<< <<"38", "BOS", "Jump", "5">> >>),
         ViewFrame(<< <<"38", "BOS", "2PT", "3">>, <<"38", "BOS", "3PT", "2">> >>) >>,
      << ViewFrame(<<>>), ViewFrame(<<>>) >> }

ViewFetchOutcomes == { Ok(l) : l \in ViewLists } \cup { Raise("FetchError") }

\* frame.iloc[:, start:]
IlocCols(frame, start) ==
    [cols |-> SubSeq(frame.cols, start + 1, Len(frame.cols)),
     rows |-> [i \in 1..Len(frame.rows) |->
                  SubSeq(frame.rows[i], start + 1, Len(frame.rows[i]))]]

\* src/src/nba.py get_shots, get_passes, get_rebounds: the endpoint differs,
\* the code does not.
GetView(st, fo) ==
    IF fo.kind = "raise" THEN Result(fo, st, 1, <<>>)
    ELSE Result(Ok(IlocCols(fo.val[1], 2)), st, 1, <<>>)

\* src/src/nba.py NBATeam.get_shots, get_passes, get_rebounds
TeamGetView(st, team_id, last_n_games, season, fo) == GetView(st, fo)

\* src/src/nba.py NBAGame.get_traditional_stats and its siblings
GameGetStats(st, game_id, fo) ==
    IF fo.kind = "raise" THEN Result(fo, st, 1, <<>>)
    ELSE Result(Ok(fo.val[1]), st, 1, <<>>)

\* src/nba_analysis/nba.py NBAPlayer
CURRENT == <<"c", "u", "r", "r", "e", "n", "t">>

GET_SHOTS_MAXSIZE == 10

\* nba_static_data.teams, as abbreviation and team id.
StaticTeams == { [abbreviation |-> "BOS", team_id |-> <<"3", "8">>],
                 [abbreviation |-> "LAL", team_id |-> <<"4", "7">>] }

\* What PlayerProfileV2 can be: the TEAM_ABBREVIATION column of its first frame.
ProfileFetchOutcomes ==
    { Ok(<<"LAL", "BOS">>), Ok(<<>>), Raise("FetchError") }

\* What a step of a memoized call gives: its value or error, the adapter
\* calls it made, and the caches it leaves.
Step(ret, fetches, mem) == [ret |-> ret, fetches |-> fetches, memo |-> mem]

\* The cached_property current_team: computed on the first access that
\* succeeds, then kept for the life of the object.
CurrentTeam(mem, player_id, po) ==
    LET cache == mem["current_team"]
        i == LruIndex(cache, player_id, <<>>)
    IN  IF i > 0 THEN Step(Ok(cache[i].val), 0, mem)
        ELSE IF po.kind = "raise" THEN Step(po, 1, mem)
        ELSE IF po.val = <<>> THEN Step(Raise("IndexError"), 1, mem)
        ELSE LET abbreviation == po.val[Len(po.val)]
                 found == { t \in StaticTeams : t.abbreviation = abbreviation }
             IN  IF found = {} THEN Step(Raise("KeyError"), 1, mem)
                 ELSE LET team_id == (CHOOSE t \in found : TRUE).team_id
                      IN  Step(Ok(team_id), 1,
                               [mem EXCEPT !["current_team"] =
                                    Append(cache, [self |-> player_id, args |-> <<>>,
                                                   val |-> team_id])])

\* NBAPlayer._get_shots, under lru_cache(maxsize=10)
PlayerGetShotsFrames(mem, player_id, team_id, last_n_games, season, opponent_team_id, po, fo) ==
    LET cache == mem["_get_shots"]
        args == << team_id, last_n_games, season, opponent_team_id >>
        i == LruIndex(cache, player_id, args)
        ct == IF team_id = CURRENT THEN CurrentTeam(mem, player_id, po)
                                   ELSE Step(Ok(team_id), 0, mem)
    IN  IF i > 0
        THEN Step(Ok(cache[i].val), 0, [mem EXCEPT !["_get_shots"] = LruTouch(cache, i)])
        ELSE IF ct.ret.kind = "raise" THEN ct
        ELSE IF fo.kind = "raise" THEN Step(fo, ct.fetches + 1, ct.memo)
        ELSE Step(fo, ct.fetches + 1,
                  [ct.memo EXCEPT !["_get_shots"] =
                       LruPut(cache, GET_SHOTS_MAXSIZE, player_id, args, fo.val)])

\* NBAPlayer.get_shots_overall is frame 0 of _get_shots, get_shots_per_type
\* frame 1.
PlayerGetShots(st, mem, frame, player_id, team_id, last_n_games, season, opponent_team_id, po, fo) ==
    LET s == PlayerGetShotsFrames(mem, player_id, team_id, last_n_games, season,
                                  opponent_team_id, po, fo)
    IN  IF s.ret.kind = "raise"
        THEN Memoized(Result(s.ret, st, s.fetches, <<>>), s.memo)
        ELSE Memoized(Result(Ok(s.ret.val[frame + 1]), st, s.fetches, <<>>), s.memo)

\* ------------------------------------------------------------- state
VARIABLES
    store,      \* the data directory: a set of [name, data] entries
    written,    \* history: per path, the table of the latest save_dataframe
    last,       \* history: the latest call, its arguments (`self` is the id of the
                \* object of a method call, `args` its other arguments) and what it did; `again` says that
                \* it repeats the call before it (function, object, arguments),
                \* `prevActive` that the call before it had is_active = True
    ncalls,     \* calls made so far
    pc,         \* per process: where it is in get_season
    loc,        \* per process: the locals of its get_season call
    memo        \* per memoized function: its cached results, least recently used
                \* first

vars == <<store, written, last, ncalls, pc, loc, memo>>

Procs == { "p1", "p2" }

Paths == { PathOf(f) : f \in Filenames \cup { PLAYERS_FILENAME } }

NoCall ==
    [op |-> "none", filename |-> <<>>, invalidate |-> FALSE,
     is_active |-> FALSE, prevActive |-> FALSE, self |-> <<>>, args |-> <<>>,
     before |-> {}, fetches |-> 0, fetched |-> None, ret |-> None,
     again |-> FALSE]

\* The locals of a process that is not in a call.
NoLocals ==
    [filename |-> <<>>, invalidate |-> FALSE, loaded |-> None, loadedDuringSave |-> FALSE,
     team_season |-> None, bytes |-> <<>>, off |-> 0, ret |-> None, calls |-> 0]

Init ==
    /\ store = {}
    /\ written = [p \in Paths |-> None]
    /\ last = NoCall
    /\ ncalls = 0
    /\ pc = [p \in Procs |-> "idle"]
    /\ loc = [p \in Procs |-> NoLocals]
    /\ memo = [fn \in MemoFns |-> <<>>]

RECURSIVE ApplySaves(_, _)
ApplySaves(w, saves) ==
    IF saves = <<>> THEN w
    ELSE LET s == Head(saves)
             p == PathOf(s.filename)
         IN  ApplySaves([q \in DOMAIN w \cup {p} |-> IF q = p THEN Ok(s.dataframe) ELSE w[q]],
                        Tail(saves))

\* One call, from entry to return or raise.  `fo` is what the remote adapter
\* answers if the call asks it.
FinishCall(op, filename, invalidate, is_active, self, args, fo, r) ==
    /\ ncalls < MaxCalls
    /\ ncalls' = ncalls + 1
    /\ store' = r.store
    /\ written' = ApplySaves(written, r.saves)
    /\ last' = [op |-> op, filename |-> filename, invalidate |-> invalidate,
                is_active |-> is_active, prevActive |-> last.is_active,
                self |-> self, args |-> args,
                before |-> Entries(store, PathOf(filename)),
                fetches |-> r.fetches,
                fetched |-> IF r.fetches > 0 THEN fo ELSE None,
                ret |-> r.ret,
                again |-> /\ last.op = op
                          /\ last.filename = filename
                          /\ last.invalidate = invalidate
                          /\ last.is_active = is_active
                          /\ last.self = self
                          /\ last.args = args]
    /\ UNCHANGED <<pc, loc>>

\* A call of a function that is not memoized.
FinishWith(op, filename, invalidate, is_active, fo, r) ==
    /\ FinishCall(op, filename, invalidate, is_active, <<>>, <<>>, fo, r)
    /\ UNCHANGED memo

Finish(op, filename, invalidate, fo, r) ==
    FinishWith(op, filename, invalidate, FALSE, fo, r)

CallGetSeason ==
    \E team_id \in TeamIds, season \in Seasons, invalidate \in BOOLEAN,
       fo \in SeasonFetchOutcomes :
        Finish("get_season", SeasonFilename(team_id, season), invalidate, fo,
               GetSeason(store, team_id, season, invalidate, fo))

CallDataGetSeason ==
    \E team_id \in TeamIds, season \in Seasons, invalidate \in BOOLEAN,
       fo \in SeasonFetchOutcomes :
        Finish("data.get_season", SeasonFilename(team_id, season), invalidate, fo,
               DataGetSeason(store, team_id, season, invalidate, fo))

CallGetTeams ==
    \E fo \in TeamsFetchOutcomes :
        Finish("get_teams", TEAMS_FILENAME, FALSE, fo, GetTeams(store, fo))

CallDataGetTeams ==
    \E fo \in TeamsFetchOutcomes :
        Finish("data.get_teams", TEAMS_FILENAME, FALSE, fo, DataGetTeams(store, fo))

CallGetDataframe ==
    \E filename \in Filenames :
        Finish("get_dataframe", filename, FALSE, None,
               Result(GetDataframe(store, filename), store, 0, <<>>))

CallDataGetDataframe ==
    \E filename \in Filenames :
        Finish("data.get_dataframe", filename, FALSE, None,
               Result(DataGetDataframe(store, filename), store, 0, <<>>))

CallSaveDataframe ==
    \E filename \in Filenames, dataframe \in GameLogs :
        Finish("save_dataframe", filename, FALSE, None,
               Result(None, SaveDataframe(store, dataframe, filename), 0,
                      << Saved(dataframe, filename) >>))

Next ==
    \/ CallGetSeason
    \/ CallDataGetSeason
    \/ CallGetTeams
    \/ CallDataGetTeams
    \/ CallGetDataframe
    \/ CallDataGetDataframe
    \/ CallSaveDataframe

Spec == Init /\ [][Next]_vars

\* ----------------------------------------------- the players dataset
CallGetPlayers ==
    \E is_active \in BOOLEAN, fo \in PlayersFetchOutcomes :
        FinishWith("get_players", PLAYERS_FILENAME, FALSE, is_active, fo,
                   GetPlayers(store, is_active, fo))

CallDataGetPlayers ==
    \E fo \in PlayersFetchOutcomes :
        Finish("data.get_players", PLAYERS_FILENAME, FALSE, fo, DataGetPlayers(store, fo))

NextPlayers ==
    \/ CallGetPlayers
    \/ CallDataGetPlayers
    \/ CallGetTeams
    \/ CallDataGetTeams

SpecPlayers == Init /\ [][NextPlayers]_vars

\* ----------------------------------------------------- get_last_matches
\* No games, one game, and more games than a season log has.
LastNGames == { 0, 1, MaxRows + 1 }

CallNbaGetLastMatches ==
    \E team_id \in TeamIds, last_n_games \in LastNGames, fo \in SeasonFetchOutcomes :
        /\ ncalls < MaxMatchCalls
        /\ FinishCall("get_last_matches", SeasonFilename(team_id, CURRENT_SEASON),
                      TRUE, FALSE, team_id, << last_n_games >>, fo,
                      NbaGetLastMatches(store, team_id, last_n_games, fo))
        /\ UNCHANGED memo

CallDataGetLastMatches ==
    \E team_id \in TeamIds, last_n_games \in LastNGames, fo \in SeasonFetchOutcomes :
        /\ ncalls < MaxMatchCalls
        /\ FinishCall("data.get_last_matches", SeasonFilename(team_id, CURRENT_SEASON),
                      TRUE, FALSE, team_id, << last_n_games >>, fo,
                      DataGetLastMatches(store, team_id, last_n_games, fo))
        /\ UNCHANGED memo

CallPrepGetLastMatches ==
    \E team_id \in TeamIds, last_n_games \in LastNGames, fo \in SeasonFetchOutcomes :
        /\ ncalls < MaxMatchCalls
        /\ FinishCall("prepare_data.get_last_matches",
                      SeasonFilename(team_id, CURRENT_SEASON),
                      TRUE, FALSE, team_id, << last_n_games >>, fo,
                      PrepGetLastMatches(store, team_id, last_n_games, fo))
        /\ UNCHANGED memo

CallAnalysisGetLastMatches ==
    \E team_id \in TeamIds, last_n_games \in LastNGames, fo \in SeasonFetchOutcomes :
        LET m == AnalysisGetLastMatches(store, memo, team_id, last_n_games, fo)
        IN  /\ ncalls < MaxMatchCalls
            /\ FinishCall("nba_analysis.get_last_matches", <<>>,
                          FALSE, FALSE, team_id, << last_n_games >>, fo, m.r)
            /\ memo' = m.memo

NextMatches ==
    \/ CallNbaGetLastMatches
    \/ CallDataGetLastMatches
    \/ CallPrepGetLastMatches
    \/ CallAnalysisGetLastMatches

SpecMatches == Init /\ [][NextMatches]_vars

\* -------------------------------------------------------- derived views
ViewNGames == { 0, 1 }

PlayerIds == { <<"2", "3">>, <<"2", "4">> }

GameIds == { <<"g", "1">> }

CallTeamGetView ==
    \E op \in {"get_shots", "get_passes", "get_rebounds"}, team_id \in TeamIds,
       last_n_games \in ViewNGames, fo \in ViewFetchOutcomes :
        /\ ncalls < MaxViewCalls
        /\ FinishCall(op, <<>>, FALSE, FALSE, team_id, << last_n_games >>, fo,
                      TeamGetView(store, team_id, last_n_games, CURRENT_SEASON, fo))
        /\ UNCHANGED memo

CallGameGetStats ==
    \E game_id \in GameIds, fo \in ViewFetchOutcomes :
        /\ ncalls < MaxViewCalls
        /\ FinishCall("get_traditional_stats", <<>>, FALSE, FALSE, game_id, <<>>, fo,
                      GameGetStats(store, game_id, fo))
        /\ UNCHANGED memo

CallPlayerGetShots ==
    \E frame \in {0, 1}, player_id \in PlayerIds, team_id \in {CURRENT} \cup TeamIds,
       last_n_games \in ViewNGames, po \in ProfileFetchOutcomes,
       fo \in ViewFetchOutcomes :
        LET m == PlayerGetShots(store, memo, frame, player_id, team_id, last_n_games,
                                CURRENT_SEASON, 0, po, fo)
        IN  /\ ncalls < MaxViewCalls
            /\ FinishCall(IF frame = 0 THEN "get_shots_overall" ELSE "get_shots_per_type",
                          <<>>, FALSE, FALSE, player_id,
                          << team_id, last_n_games, CURRENT_SEASON, 0 >>, fo, m.r)
            /\ memo' = m.memo

NextViews ==
    \/ CallTeamGetView
    \/ CallGameGetStats
    \/ CallPlayerGetShots

SpecViews == Init /\ [][NextViews]_vars

\* ------------------------------------------- get_season with **kwargs
\* The extra fetch parameters of a call, as a set of name and value.
KwargsSet == { {}, { <<"season_type_all_star", "Playoffs">> } }

\* What the game-log endpoint answers at the time of a call, for each choice
\* of the extra parameters.
Endpoints == [KwargsSet -> SeasonFetchOutcomes]

\* TeamGameLog(team_id, season, **kwargs).get_data_frames()[0]
TeamGameLog(endpoint, team_id, season, kwargs) == endpoint[kwargs]

CallGetSeasonKwargs ==
    \E team_id \in TeamIds, season \in Seasons, invalidate \in BOOLEAN,
       kwargs \in KwargsSet, endpoint \in Endpoints :
        LET fo == TeamGameLog(endpoint, team_id, season, kwargs)
        IN  /\ ncalls < MaxKwargsCalls
            /\ FinishCall("get_season", SeasonFilename(team_id, season), invalidate,
                          FALSE, <<>>, << kwargs >>, fo,
                          GetSeason(store, team_id, season, invalidate, fo))
            /\ UNCHANGED memo

CallDataGetSeasonKwargs ==
    \E team_id \in TeamIds, season \in Seasons, invalidate \in BOOLEAN,
       kwargs \in KwargsSet, endpoint \in Endpoints :
        LET fo == TeamGameLog(endpoint, team_id, season, kwargs)
        IN  /\ ncalls < MaxKwargsCalls
            /\ FinishCall("data.get_season", SeasonFilename(team_id, season), invalidate,
                          FALSE, <<>>, << kwargs >>, fo,
                          DataGetSeason(store, team_id, season, invalidate, fo))
            /\ UNCHANGED memo

NextKwargs ==
    \/ CallGetSeasonKwargs
    \/ CallDataGetSeasonKwargs

SpecKwargs == Init /\ [][NextKwargs]_vars

\* ------------------------------------------------------- key derivation
\* get_season takes any two strings: a team id as the remote service gives
\* it, and strings that hold the separator or the name of another dataset.
KeyTeamIds == { <<"3", "8">>, <<"3", "8", "_", "x">>, <<"n", "b", "a">> }

KeySeasons ==
    { CURRENT_SEASON, <<"x", "_">> \o CURRENT_SEASON,
      <<"t", "e", "a", "m", "s">>, <<"p", "l", "a", "y", "e", "r", "s">> }

CallGetSeasonKey ==
    \E team_id \in KeyTeamIds, season \in KeySeasons, invalidate \in BOOLEAN,
       fo \in SeasonFetchOutcomes :
        /\ ncalls < MaxKeyCalls
        /\ FinishCall("get_season", SeasonFilename(team_id, season), invalidate,
                      FALSE, <<>>, << team_id, season >>, fo,
                      GetSeason(store, team_id, season, invalidate, fo))
        /\ UNCHANGED memo

NextKeys ==
    \/ CallGetSeasonKey
    \/ CallGetTeams
    \/ CallGetPlayers

SpecKeys == Init /\ [][NextKeys]_vars

\* ------------------------------------------------ concurrent processes
\* get_season of src/src/nba.py run by several processes on one data
\* directory, one step per system call: the load, the fetch, the open of
\* to_parquet, each block it writes, and the return.

\* The file at `path`, empty when there is none.
FileAt(st, path) ==
    IF PathExists(st, path) THEN (CHOOSE e \in Entries(st, path) : TRUE).data ELSE <<>>

PutFile(st, path, file) ==
    { e \in st : e.name # path } \cup { [name |-> path, data |-> file] }

Saving(p) == pc[p] = "save_write"

Begin(p) ==
    /\ pc[p] = "idle"
    /\ loc[p].calls < MaxProcCalls
    /\ \E team_id \in TeamIds, season \in Seasons, invalidate \in BOOLEAN :
        /\ loc' = [loc EXCEPT ![p] =
                      [NoLocals EXCEPT !.filename = SeasonFilename(team_id, season),
                                       !.invalidate = invalidate,
                                       !.calls = loc[p].calls + 1]]
        /\ pc' = [pc EXCEPT ![p] = IF invalidate THEN "fetch" ELSE "load"]
    /\ UNCHANGED <<store, written, last, ncalls, memo>>

\* team_season = get_dataframe(filename)
Load(p) ==
    /\ pc[p] = "load"
    /\ LET r == GetDataframe(store, loc[p].filename)
           during == \E q \in Procs \ {p} :
                        Saving(q) /\ loc[q].filename = loc[p].filename
       IN  /\ loc' = [loc EXCEPT ![p].loaded = r,
                                 ![p].loadedDuringSave = during,
                                 ![p].team_season = r,
                                 ![p].ret = IF r.kind = "none" THEN None ELSE r]
           /\ pc' = [pc EXCEPT ![p] = IF r.kind = "none" THEN "fetch" ELSE "idle"]
    /\ UNCHANGED <<store, written, last, ncalls, memo>>

\* team_season = TeamGameLog(team_id, season, **kwargs).get_data_frames()[0]
Fetch(p) ==
    /\ pc[p] = "fetch"
    /\ \E fo \in SeasonFetchOutcomes :
        IF fo.kind = "raise"
        THEN /\ loc' = [loc EXCEPT ![p].ret = fo]
             /\ pc' = [pc EXCEPT ![p] = "idle"]
        ELSE /\ loc' = [loc EXCEPT ![p].team_season = fo,
                                   ![p].bytes = ToParquet(fo.val)]
             /\ pc' = [pc EXCEPT ![p] = "save_open"]
    /\ UNCHANGED <<store, written, last, ncalls, memo>>

\* to_parquet opens the path for writing: the file is there and empty.
SaveOpen(p) ==
    /\ pc[p] = "save_open"
    /\ store' = PutFile(store, PathOf(loc[p].filename), <<>>)
    /\ loc' = [loc EXCEPT ![p].off = 0]
    /\ pc' = [pc EXCEPT ![p] = "save_write"]
    /\ UNCHANGED <<written, last, ncalls, memo>>

\* to_parquet writes its next block at its own offset; after the footer it
\* closes the file and get_season returns.
SaveWrite(p) ==
    /\ pc[p] = "save_write"
    /\ LET path == PathOf(loc[p].filename)
           off  == loc[p].off
           done == off + 1 = Len(loc[p].bytes)
       IN  /\ store' = PutFile(store, path,
                               WriteAt(FileAt(store, path), off, loc[p].bytes[off + 1]))
           /\ loc' = [loc EXCEPT ![p].off = off + 1,
                                 ![p].ret = IF done THEN loc[p].team_season ELSE None]
           /\ pc' = [pc EXCEPT ![p] = IF done THEN "idle" ELSE "save_write"]
    /\ UNCHANGED <<written, last, ncalls, memo>>

NextConc ==
    \E p \in Procs :
        \/ Begin(p)
        \/ Load(p)
        \/ Fetch(p)
        \/ SaveOpen(p)
        \/ SaveWrite(p)

SpecConc == Init /\ [][NextConc]_vars

\* ================================================================ claims
\* A step that is one call of the single-threaded program.
Called == ncalls' = ncalls + 1

LastPath == PathOf(last.filename)

\* What read_parquet gives for the file at `path` of store `st`.
Stored(st, path) ==
    IF PathExists(st, path) THEN ReadParquet(FileAt(st, path)) ELSE None

\* C1: a get_season call with invalidate = False that finds an entry for its
\* key returns exactly the stored table (the one most recently saved under the
\* key), invokes the remote fetch zero times and leaves the store as it was.
C1_CacheHit ==
    [][ ( /\ Called
          /\ last'.op = "get_season"
          /\ ~last'.invalidate
          /\ PathExists(store, PathOf(last'.filename)) )
        => /\ last'.ret = written[PathOf(last'.filename)]
           /\ last'.ret = Stored(store, PathOf(last'.filename))
           /\ last'.ret.kind = "ok"
           /\ last'.fetches = 0
           /\ store' = store ]_vars

C1_Witness ==
    /\ last.op = "get_season"
    /\ ~last.invalidate
    /\ last.before # {}
    /\ last.fetches = 0
    /\ last.ret.kind = "ok"
    /\ Len(last.ret.val.rows) = 2

\* C2: a get_season call with invalidate = True, or with invalidate = False
\* and no entry for its key, invokes the remote fetch exactly once; the table
\* fetched is then the content of the entry under the key and the value
\* returned.
C2_MissOrRefresh ==
    [][ ( /\ Called
          /\ last'.op = "get_season"
          /\ (last'.invalidate \/ ~PathExists(store, PathOf(last'.filename))) )
        => /\ last'.fetches = 1
           /\ last'.fetched.kind = "ok"
                => /\ last'.ret = last'.fetched
                   /\ Stored(store', PathOf(last'.filename)) = last'.fetched
                   /\ written'[PathOf(last'.filename)] = last'.fetched ]_vars

C2_Witness ==
    /\ last.op = "get_season"
    /\ ~last.invalidate
    /\ last.before = {}
    /\ last.fetches = 1
    /\ last.ret.kind = "ok"
    /\ Stored(store, LastPath) = last.ret
    /\ Len(last.ret.val.rows) = 2

\* C3: a get_season call (either copy) with invalidate = True that finds a
\* prior entry invokes the fetch, and the entry under the key is afterwards the
\* fetched table alone, with none of the old rows; and the store never holds
\* more than one entry for a path.
C3_InvalidateOverwrites ==
    [][ /\ ( /\ Called
             /\ last'.op \in {"get_season", "data.get_season"}
             /\ last'.invalidate
             /\ PathExists(store, PathOf(last'.filename)) )
           => /\ last'.fetches = 1
              /\ last'.fetched.kind = "ok"
                   => /\ Stored(store', PathOf(last'.filename)) = last'.fetched
                      /\ last'.ret = last'.fetched
        /\ \A e \in store' : Cardinality(Entries(store', e.name)) = 1 ]_vars

C3_Witness ==
    /\ last.op \in {"get_season", "data.get_season"}
    /\ last.invalidate
    /\ last.before # {}
    /\ \E e \in last.before : ReadParquet(e.data).kind = "ok"
                              /\ Len(ReadParquet(e.data).val.rows) > 0
                              /\ ReadParquet(e.data) # last.ret
    /\ last.ret.kind = "ok"
    /\ Stored(store, LastPath) = last.ret

\* The load-or-fetch functions: both copies of get_season and of get_teams.
LoadOrFetchOps == {"get_season", "data.get_season", "get_teams", "data.get_teams"}

\* C4: when a load-or-fetch call (get_season or get_teams of src/src/nba.py)
\* with invalidate = False finds no entry and its fetch succeeds, it has
\* fetched exactly once and written the entry; the same call made next
\* fetches zero times and returns a table identical (columns, rows and
\* their order) to the first one's.
C4_SecondCallHits ==
    [][ ( /\ Called
          /\ last.op \in {"get_season", "get_teams"}
          /\ ~last.invalidate
          /\ last.before = {}
          /\ last.fetched.kind = "ok"
          /\ last'.op = last.op
          /\ last'.filename = last.filename
          /\ ~last'.invalidate )
        => /\ last.fetches = 1
           /\ last.ret.kind = "ok"
           /\ Stored(store, LastPath) = last.ret
           /\ last'.fetches = 0
           /\ last'.ret = last.ret
           /\ store' = store ]_vars

\* The second of two calls made from the empty store.
C4_Witness ==
    /\ ncalls = 2
    /\ last.again
    /\ last.op \in {"get_season", "get_teams"}
    /\ ~last.invalidate
    /\ last.before # {}
    /\ last.fetches = 0
    /\ last.ret.kind = "ok"
    /\ Len(last.ret.val.rows) = 2
    /\ Cardinality(store) = 1

\* C5: when the remote fetch raises during a load-or-fetch call, the call
\* ends with that same exception, it has invoked the fetch once and no more,
\* and the store is exactly what it was before the call.
C5_FetchFailure ==
    [][ ( /\ Called
          /\ last'.op \in LoadOrFetchOps
          /\ last'.fetched.kind = "raise" )
        => /\ last'.ret = last'.fetched
           /\ last'.ret.err = "FetchError"
           /\ last'.fetches = 1
           /\ store' = store
           /\ written' = written ]_vars

\* A failed refresh of a key that has an entry.
C5_Witness ==
    /\ last.op \in {"get_season", "get_teams"}
    /\ last.fetches = 1
    /\ last.ret = Raise("FetchError")
    /\ last.op = "get_season"
    /\ last.invalidate
    /\ last.before # {}
    /\ Entries(store, LastPath) = last.before
    /\ Stored(store, LastPath).kind = "ok"

\* C6: a load-or-fetch call for a key leaves the entries of every other key as
\* they were, leaves at most one entry for its own key, and changes the store
\* only when it has invoked the fetch.
C6_Frame ==
    [][ ( /\ Called
          /\ last'.op \in LoadOrFetchOps )
        => /\ { e \in store : e.name # PathOf(last'.filename) }
                = { e \in store' : e.name # PathOf(last'.filename) }
           /\ Cardinality(Entries(store', PathOf(last'.filename))) <= 1
           /\ store' # store => last'.fetches = 1 ]_vars

\* A call that wrote its entry while another key had one.
C6_Witness ==
    /\ last.op \in LoadOrFetchOps
    /\ last.fetches = 1
    /\ last.ret.kind = "ok"
    /\ Stored(store, LastPath) = last.ret
    /\ last.before # Entries(store, LastPath)
    /\ \E e \in store : e.name # LastPath

\* C7: a process that loads a key while another process is inside
\* save_dataframe for the same key gets None or a table, never the error of a
\* file that is not completely written.
C7_AtomicWrite ==
    \A p \in Procs : loc[p].loadedDuringSave => loc[p].loaded.kind # "raise"

\* C8: get_dataframe of a key returns a table equal (columns, row order,
\* values) to the one most recently passed to save_dataframe for that key.
C8_RoundTrip ==
    [][ ( /\ Called
          /\ last'.op = "get_dataframe"
          /\ written[PathOf(last'.filename)].kind = "ok" )
        => /\ last'.ret = written[PathOf(last'.filename)]
           /\ store' = store ]_vars

\* A load of a key under which a two-row table, its rows in the order g2, g1,
\* was saved.
C8_Witness ==
    /\ last.op = "get_dataframe"
    /\ last.ret.kind = "ok"
    /\ last.ret.val.cols = GameLogCols
    /\ Len(last.ret.val.rows) = 2
    /\ last.ret.val.rows[1].k = "g2"
    /\ last.ret = written[LastPath]

\* C9: get_dataframe (either copy) of a key that was never saved returns
\* None, not an exception and not an empty table, and leaves the store as it
\* was.
C9_MissingKey ==
    [][ ( /\ Called
          /\ last'.op \in {"get_dataframe", "data.get_dataframe"}
          /\ written[PathOf(last'.filename)].kind = "none" )
        => /\ last'.ret = None
           /\ store' = store ]_vars

\* A load of a key never saved while another key has an entry.
C9_Witness ==
    /\ last.op = "data.get_dataframe"
    /\ written[LastPath].kind = "none"
    /\ last.ret.kind = "none"
    /\ store # {}

\* The table a call's fetch produced: get_teams turns the directory it
\* fetched into a frame.
FetchedTable(call) ==
    IF call.op \in {"get_teams", "data.get_teams"}
    THEN Ok(TeamsFrame(call.fetched.val))
    ELSE call.fetched

\* C10: the table a load-or-fetch call returns is either the table of the
\* fetch made within the call or, with no fetch made, the table of the most
\* recent save under its key; and when the call returns, the entry under its
\* key holds the returned table.
C10_ReturnedIsStored ==
    [][ ( /\ Called
          /\ last'.op \in LoadOrFetchOps
          /\ last'.ret.kind = "ok" )
        => /\ \/ last'.fetches = 1 /\ last'.ret = FetchedTable(last')
              \/ last'.fetches = 0 /\ last'.ret = written[PathOf(last'.filename)]
           /\ Stored(store', PathOf(last'.filename)) = last'.ret
           /\ written'[PathOf(last'.filename)] = last'.ret ]_vars

\* A refresh that replaced a different, older table and returned the new one.
C10_Witness ==
    /\ last.op = "get_season"
    /\ last.invalidate
    /\ last.fetches = 1
    /\ last.ret.kind = "ok"
    /\ last.before # {}
    /\ last.before # Entries(store, LastPath)
    /\ Stored(store, LastPath) = last.ret

\* C11: when the fetch returns the same table as it did for the call before,
\* one more get_season call with invalidate = True for the same key leaves the
\* store as that call left it; so any number of such calls in a row leaves the
\* store as a single one does.
C11_RefreshIdempotent ==
    [][ ( /\ Called
          /\ last'.op \in {"get_season", "data.get_season"}
          /\ last'.invalidate
          /\ last'.again
          /\ last.fetched.kind = "ok"
          /\ last'.fetched = last.fetched )
        => /\ store' = store
           /\ written' = written
           /\ last'.ret = last.ret ]_vars

\* The third of three refreshes in a row that fetched a two-row table.
C11_Witness ==
    /\ ncalls = 3
    /\ last.op = "get_season"
    /\ last.invalidate
    /\ last.again
    /\ last.fetches = 1
    /\ last.ret.kind = "ok"
    /\ Len(last.ret.val.rows) = 2
    /\ Cardinality(store) = 1
    /\ last.before = Entries(store, LastPath)

PlayersPath == PathOf(PLAYERS_FILENAME)

\* C12: get_players filters the frame it returns, never the one it saves: a
\* call that fetches leaves the whole fetched frame under the players key, a
\* call that finds the entry leaves the store alone, a call with is_active =
\* True returns the active rows of the stored frame, and a call with
\* is_active = False returns the whole of it, also right after a filtered call
\* that populated the entry.
C12_PlayersFilter ==
    [][ ( /\ Called
          /\ last'.op = "get_players"
          /\ last'.ret.kind = "ok" )
        => /\ last'.fetches = 1
                => Stored(store', PlayersPath) = Ok(PlayersFrame(last'.fetched.val))
           /\ last'.fetches = 0 => store' = store
           /\ last'.ret = IF last'.is_active
                          THEN Ok(ActiveOnly(Stored(store', PlayersPath).val))
                          ELSE Stored(store', PlayersPath)
           /\ ( /\ ~last'.is_active
                /\ last.op = "get_players"
                /\ last.is_active
                /\ last.fetches = 1
                /\ last.fetched.kind = "ok" )
                => last'.ret = Ok(PlayersFrame(last.fetched.val)) ]_vars

\* An unfiltered call, answered from the entry that a filtered call made from
\* the empty store had populated; the frame holds a player who is not active.
C12_Witness ==
    /\ ncalls = 2
    /\ last.op = "get_players"
    /\ ~last.is_active
    /\ last.prevActive
    /\ last.fetches = 0
    /\ last.ret.kind = "ok"
    /\ \E i \in 1..Len(last.ret.val.rows) : ~IsActiveRow(last.ret.val.rows[i])
    /\ \E i \in 1..Len(last.ret.val.rows) : IsActiveRow(last.ret.val.rows[i])

TeamsPath == PathOf(TEAMS_FILENAME)

\* C13: in every copy of get_teams, a call that finds the teams entry populated
\* returns the rows of that entry and does not invoke the remote fetch.
C13_TeamsHit ==
    [][ ( /\ Called
          /\ last'.op \in {"get_teams", "data.get_teams"}
          /\ Stored(store, TeamsPath).kind = "ok" )
        => /\ last'.ret = Stored(store, TeamsPath)
           /\ last'.fetches = 0 ]_vars

\* C14: a get_season call with invalidate = False whose load finds the file of
\* its key present but not readable goes on as on a miss: it raises nothing and
\* moves to the fetch (whose result it then saves over the file and returns).
C14_CorruptIsMiss ==
    [][ \A p \in Procs :
          ( /\ pc[p] = "load"
            /\ pc'[p] # "load"
            /\ PathExists(store, PathOf(loc[p].filename))
            /\ ReadParquet(FileAt(store, PathOf(loc[p].filename))).kind = "raise" )
          => /\ pc'[p] = "fetch"
             /\ loc'[p].ret.kind # "raise" ]_vars

\* Both processes have gone through a miss of the same key, fetched, written
\* and returned.
BothMissedAndFinished ==
    /\ \A p \in Procs :
         /\ pc[p] = "idle"
         /\ loc[p].calls = 1
         /\ ~loc[p].invalidate
         /\ loc[p].loaded.kind = "none"
         /\ loc[p].team_season.kind = "ok"
         /\ loc[p].off = Len(loc[p].bytes)
    /\ \A p, q \in Procs : loc[p].filename = loc[q].filename

\* C15: once two processes that both missed the same key have both finished,
\* the entry of the key is the table one of them wrote (the later writer's),
\* and each of them has returned the table it fetched itself.
C15_LastWriterWins ==
    BothMissedAndFinished
        => /\ \E p \in Procs :
                Stored(store, PathOf(loc[p].filename)) = loc[p].team_season
           /\ \A p \in Procs : loc[p].ret = loc[p].team_season

LastMatchesOps ==
    { "get_last_matches", "data.get_last_matches", "prepare_data.get_last_matches",
      "nba_analysis.get_last_matches" }

\* C16: in every copy, get_last_matches(N) with N >= 1 returns the final N
\* rows, in the adapter's order, of the season log it fetched.
C16_TrailingRows ==
    [][ ( /\ Called
          /\ last'.op \in LastMatchesOps
          /\ last'.args[1] >= 1
          /\ last'.fetches = 1
          /\ last'.ret.kind = "ok" )
        => LET rows == last'.fetched.val.rows
               n == Len(rows)
           IN  last'.ret.val.rows =
                   SubSeq(rows, Max(n - last'.args[1], 0) + 1, n) ]_vars

RefreshingLastMatchesOps ==
    { "get_last_matches", "data.get_last_matches", "prepare_data.get_last_matches" }

\* C19: a get_last_matches call (src/src/nba.py, src/data.py,
\* src/prepare_data.py) asks the adapter for the season log whether or not the
\* key has an entry, and when the fetch succeeds the entry of the team's season
\* key is afterwards the whole fetched log, while the caller gets a slice of it.
C19_ForcedRefresh ==
    [][ ( /\ Called
          /\ last'.op \in RefreshingLastMatchesOps )
        => /\ last'.invalidate
           /\ last'.fetches = 1
           /\ last'.fetched.kind = "ok"
                => /\ Stored(store', PathOf(SeasonFilename(last'.self, CURRENT_SEASON)))
                        = last'.fetched
                   /\ written'[PathOf(SeasonFilename(last'.self, CURRENT_SEASON))]
                        = last'.fetched
                   /\ last'.ret.kind = "ok"
                   /\ \/ last'.ret.val = IlocHead(last'.fetched.val, last'.args[1])
                      \/ last'.ret.val = IlocTail(last'.fetched.val, -last'.args[1])
           /\ last'.fetched.kind = "raise" => store' = store ]_vars

\* A get_last_matches(1) call on a key that had an entry: it fetched a two-game
\* log, returned one game of it and left both games in the store.
C19_Witness ==
    /\ last.op \in RefreshingLastMatchesOps
    /\ last.before # {}
    /\ last.args[1] = 1
    /\ last.fetches = 1
    /\ last.ret.kind = "ok"
    /\ Len(last.ret.val.rows) = 1
    /\ Stored(store, LastPath).kind = "ok"
    /\ Len(Stored(store, LastPath).val.rows) = 2
    /\ Stored(store, LastPath) # Stored(last.before, LastPath)

\* C20: in every copy, get_last_matches(N) with N >= 0 on a fetched season log
\* of L rows returns min(N, L) rows: none for N = 0, all L for N > L.
C20_RowCount ==
    [][ ( /\ Called
          /\ last'.op \in LastMatchesOps
          /\ last'.fetches = 1
          /\ last'.ret.kind = "ok" )
        => Len(last'.ret.val.rows)
               = Min(last'.args[1], Len(last'.fetched.val.rows)) ]_vars

ViewOps ==
    { "get_shots", "get_passes", "get_rebounds", "get_traditional_stats",
      "get_shots_overall", "get_shots_per_type" }

\* C17: every call of a shots, passes, rebounds or box-score accessor asks the
\* remote adapter, also when it repeats an earlier call with the same
\* arguments; none is answered from a memoized result.
C17_ViewsNotCached ==
    [][ ( /\ Called
          /\ last'.op \in ViewOps )
        => last'.fetches >= 1 ]_vars

PresenceOps ==
    { "get_teams", "data.get_teams", "get_players", "data.get_players",
      "get_season", "data.get_season" }

\* C18: in every copy of get_teams, get_players and get_season, a call without
\* invalidate that finds a readable entry for its key, with rows or with none,
\* returns that entry (get_players its active rows, when asked to): it raises
\* nothing, fetches nothing and leaves the store alone.
C18_PresenceNotTruth ==
    [][ ( /\ Called
          /\ last'.op \in PresenceOps
          /\ ~last'.invalidate
          /\ Stored(store, PathOf(last'.filename)).kind = "ok" )
        => /\ last'.ret.kind = "ok"
           /\ last'.ret.val =
                  IF last'.is_active
                  THEN ActiveOnly(Stored(store, PathOf(last'.filename)).val)
                  ELSE Stored(store, PathOf(last'.filename)).val
           /\ last'.fetches = 0
           /\ store' = store ]_vars

\* C21: a get_season call never returns a table that an earlier call fetched
\* with other extra fetch parameters: when it is answered from the entry that
\* the get_season call before it fetched and saved for the same key, both
\* calls were made with the same kwargs.
C21_SameKwargs ==
    [][ ( /\ Called
          /\ last'.op \in {"get_season", "data.get_season"}
          /\ last'.ret.kind = "ok"
          /\ last'.fetches = 0
          /\ last.op \in {"get_season", "data.get_season"}
          /\ last.filename = last'.filename
          /\ last.fetches = 1
          /\ last.fetched.kind = "ok" )
        => last'.args = last.args ]_vars

\* The inputs of the key of a call: the dataset kind with the team id and the
\* season, if it has them.
KeyInputs(call) ==
    IF call.op = "get_teams" THEN << "teams" >>
    ELSE IF call.op = "get_players" THEN << "players" >>
    ELSE << "season" >> \o call.args

\* C22: of two calls in a row, those with the same dataset kind, team_id and
\* season use the same file name, and those that differ in any of them use
\* different file names, so that no call is answered from, or writes over, the
\* entry of another dataset.
C22_KeysInjective ==
    [][ ( /\ Called
          /\ last.op # "none" )
        => ( KeyInputs(last') = KeyInputs(last) <=> last'.filename = last.filename )
      ]_vars

====
